---- MODULE Spec2Model ----
(***************************************************************************)
(* Session / token authentication core of the blog backend.                *)
(*                                                                         *)
(* Time is counted in whole seconds, the resolution of the JWT exp claim   *)
(* and of the TTLs of the shared store.  The shared store (Redis) drops a  *)
(* key as soon as its TTL has elapsed; that happens in Tick.               *)
(***************************************************************************)
EXTENDS Integers, FiniteSets, Sequences, TLC

\* ---------------------------------------------------------------- bounds
MaxTime == 3
NumUsers == 2
MaxSessions == 1
MaxLogins == 2
MaxTokens == 2
MaxIssued == 1
MaxTtl == 2
MaxBl == 2
MaxPending == 1
MaxFault == 3
\* scaled lifetimes (the configured values are minutes, hours and days)
DefaultExpireSeconds == 3
AccessTokenExpire == 1
RefreshTokenExpire == 2
SessionExpireSeconds == 2
DefaultSessionExpire == 2
SimpleDefaultExpire == 2
TzShift == 1
HeartbeatInterval == 1
MaxMissedHeartbeats == 3
MaxBeats == 2
MaxMarks == 4

Users == 1..NumUsers
TokenTypes == {"access", "refresh"}
\* offset of the server's local time from UTC, fixed by the deployment
TzOffsets == {0 - TzShift, 0, TzShift}

VARIABLES
    now,        \* datetime.utcnow(), in seconds
    tzOffset,   \* local time minus UTC
    redisUp,    \* the shared store answers
    userState,  \* user table: "active" | "inactive" | "absent"
    issued,     \* tokens signed with the server's key so far
    tokLog,     \* history: for every issued token, the arguments of its issue
    blSet,      \* store: set "blacklisted_tokens" (token hashes)
    blSetExp,   \* store: time at which that set is dropped (0: no TTL / no key)
    blRecs,     \* store: "token_blacklist:<id>" detail records
    nextBl,     \* number of detail records written so far
    revoked,    \* history: tokens whose add_token returned True, not removed since
    jwtBl,      \* JWTAuthManager._blacklist (in memory)
    rs,         \* store: "enhanced_session:<id>" records of SessionManager
    rsIdx,      \* store: "user_sessions:<user>" sets of SessionManager
    rsIdxExp,   \* store: time at which each of those sets is dropped
    ss,         \* SimpleSessionManager._sessions (in memory)
    nextSid,    \* number of session ids allocated so far
    sessLog,    \* history: per session id, creation time, lifetime, events
    pend,       \* read-modify-write calls on a session that have read, not yet written
    hb,         \* store: heartbeat summaries, counters, records and statistics;
                \* reads: summaries read by mark_missed_heartbeat calls in flight
    hbLog,      \* history: per session, the last recorded heartbeat and the misses since
    task,       \* the background task periodic_cleanup: where it stands, when its
                \* sleep ends, the expired ids its sweep has still to delete,
                \* whether cancel() was called on it, how many sweeps raised
    last        \* the last call and what it returned

vars == <<now, tzOffset, redisUp, userState, issued, tokLog, blSet, blSetExp,
          blRecs, nextBl, revoked, jwtBl, rs, rsIdx, rsIdxExp, ss, nextSid,
          sessLog, pend, hb, hbLog, task, last>>

\* ------------------------------------------------------------ tokens
\* str(subject) and int(user_id)
Str(n) == <<n>>
ToInt(s) == s[1]

NoToken == [sub |-> Str(0), sid |-> 0, typ |-> "none", exp |-> 0, iat |-> 0, sig |-> FALSE]
\* a token that was not signed with the server's key
ForgedToken == [sub |-> Str(1), sid |-> 0, typ |-> "access", exp |-> MaxTime + MaxTtl,
                iat |-> 0, sig |-> FALSE]

\* an encoding that leaves the session_id out
EncodeTokenNoSession(subject, session_id, typ, expire) ==
    [sub |-> Str(subject), sid |-> 0, typ |-> typ, exp |-> expire,
     iat |-> now, sig |-> TRUE]

\* jwt.encode of the claims built by create_access_token / create_refresh_token:
\* session_id is included only when it is truthy
EncodeToken(subject, session_id, typ, expire) ==
    [sub |-> Str(subject), sid |-> session_id, typ |-> typ, exp |-> expire,
     iat |-> now, sig |-> TRUE]

create_access_token(subject, session_id, expires_delta) ==
    EncodeToken(subject, session_id, "access",
                now + (IF expires_delta > 0 THEN expires_delta ELSE AccessTokenExpire))

create_refresh_token(subject, session_id, expires_delta) ==
    EncodeToken(subject, session_id, "refresh",
                now + (IF expires_delta > 0 THEN expires_delta ELSE RefreshTokenExpire))

\* a decode that checks the signature only
DecodeOkNoExp(t) == t.sig

\* jwt.decode: signature, then exp (rejected when exp < now)
DecodeOk(t) == t.sig /\ ~(t.exp < now)

\* hashlib.sha256(token).hexdigest(): one-way, injective on the tokens used here
HashToken(t) == <<"sha256", t>>

\* --------------------------------------------------- TokenBlacklistManager
\* a lookup that answers "not blacklisted" when the store does not answer
is_blacklisted_fail_open(up, t) == up /\ HashToken(t) \in blSet

\* up: the store answers this command
is_blacklisted(up, t) ==
    IF ~up THEN TRUE ELSE HashToken(t) \in blSet

\* the blacklist part of the store, as one value
BL == [set |-> blSet, exp |-> blSetExp, recs |-> blRecs, next |-> nextBl]

\* add_token(token, expires_at, reason): hasExp is "expires_at is not None".
\* Result: the store afterwards and the returned bool.
add_token(up, bl, t, hasExp, expAt) ==
    LET expire_seconds == IF hasExp THEN expAt - now ELSE DefaultExpireSeconds
    IN  IF hasExp /\ expire_seconds <= 0
        THEN [bl |-> bl, ret |-> TRUE]
        ELSE IF ~up
        THEN [bl |-> bl, ret |-> FALSE]
        ELSE [bl |-> [set  |-> bl.set \cup {HashToken(t)},
                      exp  |-> now + expire_seconds,
                      recs |-> bl.recs \cup
                               {[id |-> bl.next + 1, token |-> t, hasExp |-> hasExp,
                                 expires_at |-> IF hasExp THEN expAt ELSE 0,
                                 dropAt |-> now + expire_seconds]},
                      next |-> bl.next + 1],
              ret |-> TRUE]

\* remove_token(token): srem; an emptied set key is dropped by the store
remove_token(up, bl, t) ==
    IF ~up THEN [bl |-> bl, ret |-> FALSE]
    ELSE LET s == bl.set \ {HashToken(t)}
         IN  [bl |-> [bl EXCEPT !.set = s, !.exp = IF s = {} THEN 0 ELSE bl.exp],
              ret |-> HashToken(t) \in bl.set]

\* cleanup_expired_tokens(): the records whose expires_at has passed
cleanup_expired(bl) == {r \in bl.recs : r.hasExp /\ now > r.expires_at}

cleanup_expired_tokens(up, bl) ==
    IF ~up THEN [bl |-> bl, ret |-> 0]
    ELSE LET gone == cleanup_expired(bl)
             s == bl.set \ {HashToken(r.token) : r \in gone}
         IN  [bl |-> [bl EXCEPT !.set = s, !.exp = IF s = {} THEN 0 ELSE bl.exp,
                                !.recs = bl.recs \ gone],
              ret |-> Cardinality(gone)]

\* ------------------------------------------- SessionManager (shared store)
\* the session part of the store, as one value
SM == [s |-> rs, idx |-> rsIdx, idxExp |-> rsIdxExp]

\* create_session with one index key shared by all users
create_session_shared_index(up, sm, sid, user_id, expires_in) ==
    LET expire_seconds == IF expires_in > 0 THEN expires_in ELSE DefaultSessionExpire
    IN  IF ~up THEN sm
        ELSE [s |-> [x \in DOMAIN sm.s \cup {sid} |->
                        IF x = sid
                        THEN [user_id |-> user_id, is_active |-> TRUE,
                              expires_at |-> now + expire_seconds,
                              last_activity |-> now, dropAt |-> now + expire_seconds]
                        ELSE sm.s[x]],
              idx |-> [u \in Users |-> sm.idx[u] \cup {sid}],
              idxExp |-> [u \in Users |-> now + expire_seconds]]

\* create_session(user_id, ..., expires_in) with the fresh uuid sid.  With the
\* store unreachable the uuid is returned and nothing is stored.
create_session(up, sm, sid, user_id, expires_in) ==
    LET expire_seconds == IF expires_in > 0 THEN expires_in ELSE DefaultSessionExpire
    IN  IF ~up THEN sm
        ELSE [s |-> [x \in DOMAIN sm.s \cup {sid} |->
                        IF x = sid
                        THEN [user_id |-> user_id, is_active |-> TRUE,
                              expires_at |-> now + expire_seconds,
                              last_activity |-> now, dropAt |-> now + expire_seconds]
                        ELSE sm.s[x]],
              idx |-> [sm.idx EXCEPT ![user_id] = @ \cup {sid}],
              idxExp |-> [sm.idxExp EXCEPT ![user_id] = now + expire_seconds]]

\* get_session(session_id) is not None
has_session(up, sm, sid) == up /\ sid \in DOMAIN sm.s

\* update_session_activity(session_id), run without interruption: the record is
\* written back with the TTL the key has left
update_session_activity(up, sm, sid) ==
    IF ~has_session(up, sm, sid) THEN [sm |-> sm, ret |-> FALSE]
    ELSE [sm |-> [sm EXCEPT !.s[sid].last_activity = now], ret |-> TRUE]

\* delete_session(session_id)
delete_session(up, sm, sid) ==
    IF ~up THEN [sm |-> sm, ret |-> FALSE]
    ELSE IF sid \notin DOMAIN sm.s THEN [sm |-> sm, ret |-> FALSE]
    ELSE LET u == sm.s[sid].user_id
             left == sm.idx[u] \ {sid}
         IN  [sm |-> [s |-> [x \in DOMAIN sm.s \ {sid} |-> sm.s[x]],
                      idx |-> [sm.idx EXCEPT ![u] = left],
                      idxExp |-> [sm.idxExp EXCEPT ![u] = IF left = {} THEN 0 ELSE @]],
              ret |-> TRUE]

\* get_user_sessions(user_id): the ids of the user's set that resolve to a session
get_user_sessions(up, sm, user_id) ==
    IF ~up THEN {} ELSE {x \in sm.idx[user_id] : x \in DOMAIN sm.s}

\* the loop of delete_user_sessions over the ids read from the user's set
RECURSIVE delete_each(_, _, _)
delete_each(up, sm, ids) ==
    IF ids = {} THEN [sm |-> sm, ret |-> 0]
    ELSE LET x == CHOOSE y \in ids : TRUE
             d == delete_session(up, sm, x)
             rest == delete_each(up, d.sm, ids \ {x})
         IN  [sm |-> rest.sm, ret |-> rest.ret + (IF d.ret THEN 1 ELSE 0)]

\* delete_user_sessions(user_id, exclude_session): exclude_session 0 is None
delete_user_sessions(up, sm, user_id, exclude_session) ==
    IF ~up THEN [sm |-> sm, ret |-> 0]
    ELSE delete_each(up, sm, sm.idx[user_id] \ {exclude_session})

\* SessionManager.cleanup_expired_sessions(): the number of session keys found
cleanup_expired_sessions(up, sm) ==
    [sm |-> sm, ret |-> IF ~up THEN 0 ELSE Cardinality(DOMAIN sm.s)]

\* validate_session(session_id, user_id): user_id 0 stands for None
validate_session(up, sm, sid, user_id) ==
    IF ~has_session(up, sm, sid) THEN [sm |-> sm, ret |-> FALSE]
    ELSE IF ~sm.s[sid].is_active THEN [sm |-> sm, ret |-> FALSE]
    ELSE IF user_id # 0 /\ sm.s[sid].user_id # user_id THEN [sm |-> sm, ret |-> FALSE]
    ELSE IF now > sm.s[sid].expires_at
         THEN [sm |-> delete_session(up, sm, sid).sm, ret |-> FALSE]
    ELSE [sm |-> update_session_activity(up, sm, sid).sm, ret |-> TRUE]

\* extend_session(session_id, extend_seconds), run without interruption
extend_session(up, sm, sid, extend_seconds) ==
    LET extend_time == IF extend_seconds > 0 THEN extend_seconds ELSE DefaultSessionExpire
    IN  IF ~has_session(up, sm, sid) THEN [sm |-> sm, ret |-> FALSE]
        ELSE [sm |-> [sm EXCEPT !.s[sid].expires_at = now + extend_time,
                                !.s[sid].dropAt = now + extend_time],
              ret |-> TRUE]

\* deactivate_session(session_id), run without interruption
deactivate_session(up, sm, sid) ==
    IF ~has_session(up, sm, sid) THEN [sm |-> sm, ret |-> FALSE]
    ELSE [sm |-> [sm EXCEPT !.s[sid].is_active = FALSE], ret |-> TRUE]

\* ------------------------------------- SimpleSessionManager (in memory)
simple_create_session(m, sid, user_id, expires_in) ==
    [x \in DOMAIN m \cup {sid} |->
        IF x = sid
        THEN [user_id |-> user_id, is_active |-> TRUE,
              expires_at |-> now + (IF expires_in > 0 THEN expires_in
                                    ELSE SimpleDefaultExpire),
              last_activity |-> now]
        ELSE m[x]]

simple_deactivate_session(m, sid) ==
    IF sid \in DOMAIN m THEN [m |-> [m EXCEPT ![sid].is_active = FALSE], ret |-> TRUE]
    ELSE [m |-> m, ret |-> FALSE]

simple_validate_session(m, sid, user_id) ==
    IF sid = 0 \/ sid \notin DOMAIN m THEN [m |-> m, ret |-> FALSE]
    ELSE IF now > m[sid].expires_at
         THEN [m |-> simple_deactivate_session(m, sid).m, ret |-> FALSE]
    ELSE IF ~m[sid].is_active THEN [m |-> m, ret |-> FALSE]
    ELSE IF user_id # 0 /\ m[sid].user_id # user_id THEN [m |-> m, ret |-> FALSE]
    ELSE [m |-> m, ret |-> TRUE]

simple_update_session_activity(m, sid) ==
    IF sid \in DOMAIN m THEN [m |-> [m EXCEPT ![sid].last_activity = now], ret |-> TRUE]
    ELSE [m |-> m, ret |-> FALSE]

simple_delete_session(m, sid) ==
    IF sid \in DOMAIN m THEN [m |-> [x \in DOMAIN m \ {sid} |-> m[x]], ret |-> TRUE]
    ELSE [m |-> m, ret |-> FALSE]

simple_cleanup_expired_sessions(m) ==
    LET expired == {x \in DOMAIN m : now > m[x].expires_at}
    IN  [m |-> [x \in DOMAIN m \ expired |-> m[x]], ret |-> Cardinality(expired)]

\* deactivate_user_sessions(user_id, except_session_id)
simple_deactivate_user_sessions(m, user_id, except_session_id) ==
    LET hit == {x \in DOMAIN m : /\ m[x].user_id = user_id
                                 /\ m[x].is_active
                                 /\ x # except_session_id}
    IN  [m |-> [x \in DOMAIN m |-> IF x \in hit THEN [m[x] EXCEPT !.is_active = FALSE]
                                   ELSE m[x]],
         ret |-> Cardinality(hit)]

\* the endpoint DELETE /admin/invalidate/{user_id}, called by the superuser
\* current_user
admin_invalidate_user_sessions(up, sm, user_id, current_user) ==
    delete_user_sessions(up, sm, current_user, 0)

\* ------------------------------------------------------- HeartbeatManager
HbSessions == 1..MaxSessions

\* the summary key "heartbeat:session:<id>" is stored
has_heartbeat(h, sid) == sid \in DOMAIN h.s

\* setex of the summary key with a lifetime of two intervals.  The key is
\* written after the timestamp it carries was read, so it is still stored when
\* two intervals have passed since that timestamp and gone one tick later.
set_summary(h, sid, info) ==
    [x \in DOMAIN h.s \cup {sid} |->
        IF x = sid THEN [info EXCEPT !.dropAt = now + 2 * HeartbeatInterval]
        ELSE h.s[x]]

\* record_heartbeat(session_id, user_id, client_info, server_timestamp=utcnow()):
\* the detail record (kept one hour), the per-session counter, the summary and
\* the global statistics.  With the store unreachable the first write raises.
record_heartbeat(up, h, sid, user_id) ==
    IF ~up THEN [hb |-> h, ret |-> "error"]
    ELSE [hb |-> [s |-> set_summary(h, sid,
                            [last_heartbeat |-> now,
                             heartbeat_count |-> h.count[sid] + 1,
                             missed_count |-> 0, status |-> "active", dropAt |-> 0]),
                  count |-> [h.count EXCEPT ![sid] = @ + 1],
                  recs |-> h.recs \cup {[heartbeat_id |-> h.total + 1, session_id |-> sid,
                                         user_id |-> user_id, server_timestamp |-> now]},
                  total |-> h.total + 1,
                  reads |-> h.reads],
          ret |-> "recorded"]

\* check_session_heartbeat_status(session_id)
check_session_heartbeat_status(up, h, sid) ==
    IF ~up THEN [status |-> "error", is_alive |-> FALSE, missed_count |-> 0]
    ELSE IF ~has_heartbeat(h, sid)
    THEN [status |-> "no_heartbeat", is_alive |-> FALSE, missed_count |-> 0]
    ELSE LET time_since_last == now - h.s[sid].last_heartbeat
         IN  IF time_since_last <= HeartbeatInterval
             THEN [status |-> "active", is_alive |-> TRUE,
                   missed_count |-> h.s[sid].missed_count]
             ELSE IF time_since_last <= HeartbeatInterval * 2
             THEN [status |-> "warning", is_alive |-> TRUE,
                   missed_count |-> h.s[sid].missed_count]
             ELSE [status |-> "timeout", is_alive |-> FALSE,
                   missed_count |-> h.s[sid].missed_count]

\* mark_missed_heartbeat(session_id)
mark_missed_heartbeat(up, h, sid) ==
    IF ~up \/ ~has_heartbeat(h, sid) THEN [hb |-> h, ret |-> FALSE]
    ELSE LET missed_count == h.s[sid].missed_count + 1
         IN  [hb |-> [h EXCEPT !.s = set_summary(h, sid,
                                        [h.s[sid] EXCEPT !.missed_count = missed_count,
                                                         !.status = "missed"])],
              ret |-> missed_count >= MaxMissedHeartbeats]

\* ------------------------------------------------------------ AuthManager
NoPayload == [ok |-> FALSE, user_id |-> Str(0), session_id |-> 0]

\* AuthManager.verify_token(token, token_type): None, or the subject and the
\* session_id of the token (session_id 0: the bare subject of compatibility mode)
verify_token(up, t, token_type) ==
    IF is_blacklisted(up, t) THEN NoPayload
    ELSE IF ~DecodeOk(t) THEN NoPayload
    ELSE IF t.typ # token_type THEN NoPayload
    ELSE [ok |-> TRUE, user_id |-> t.sub, session_id |-> t.sid]

\* JWTAuthManager.verify_token(token, token_type): its blacklist is a set in the
\* memory of the process
jwt_verify_token(jbl, t, token_type) ==
    IF t \in jbl THEN NoPayload
    ELSE IF ~DecodeOk(t) THEN NoPayload
    ELSE IF t.typ # token_type THEN NoPayload
    ELSE [ok |-> TRUE, user_id |-> t.sub, session_id |-> t.sid]

\* the k-th command a call sends to the store is answered: the store is up and
\* the fault f of this call does not hit that command (f = 0: no fault)
Up(f, k) == redisUp /\ f # k

\* user_service.get(db, id) is not None, and user_service.is_active(user)
user_exists(u) == u \in Users /\ userState[u] # "absent"
user_is_active(u) == u \in Users /\ userState[u] = "active"

\* AuthManager.revoke_token(token): datetime.fromtimestamp(exp) is the expiry in
\* local time, add_token compares it with utcnow()
revoke_token(f, bl, sm, t) ==
    IF DecodeOk(t)
    THEN LET b == add_token(Up(f, 1), bl, t, TRUE, t.exp + tzOffset)
             d == IF t.sid # 0 THEN deactivate_session(Up(f, 2), sm, t.sid)
                  ELSE [sm |-> sm, ret |-> TRUE]
         IN  [bl |-> b.bl, sm |-> d.sm, ret |-> b.ret /\ d.ret,
              blacklisted |-> b.ret, invalidated |-> d.ret]
    ELSE LET b == add_token(Up(f, 1), bl, t, FALSE, 0)
         IN  [bl |-> b.bl, sm |-> sm, ret |-> b.ret,
              blacklisted |-> b.ret, invalidated |-> TRUE]

\* JWTAuthManager.revoke_token(token): always True
jwt_revoke_token(f, jbl, sm, t) ==
    [jbl |-> jbl \cup {t},
     sm |-> IF DecodeOk(t) /\ t.sid # 0 THEN deactivate_session(Up(f, 3), sm, t.sid).sm
            ELSE sm,
     invalidated |-> IF DecodeOk(t) /\ t.sid # 0
                     THEN deactivate_session(Up(f, 3), sm, t.sid).ret ELSE TRUE,
     ret |-> TRUE]

\* AuthManager.triple_verify_authentication(request, db): the bearer token t
\* (NoToken: none) and the session cookie (0: none).  user 0 is None.
triple_verify_authentication(f, sm, t, cookie) ==
    LET td == verify_token(Up(f, 1), t, "access")
        user_id == ToInt(td.user_id)
        jwt_session_id == IF td.session_id # 0 THEN td.session_id ELSE cookie
        v == validate_session(Up(f, 2), sm, jwt_session_id, user_id)
    IN  IF t = NoToken \/ cookie = 0 THEN [sm |-> sm, user |-> 0]
        ELSE IF ~td.ok THEN [sm |-> sm, user |-> 0]
        ELSE IF ~v.ret THEN [sm |-> v.sm, user |-> 0]
        ELSE IF cookie # jwt_session_id THEN [sm |-> v.sm, user |-> 0]
        ELSE IF ~user_is_active(user_id) THEN [sm |-> v.sm, user |-> 0]
        ELSE [sm |-> update_session_activity(Up(f, 3), v.sm, jwt_session_id).sm,
              user |-> user_id]

\* get_current_user(request, db, token): user 0 is a raised HTTPException, whose
\* status is code.  Without a bearer token the value of the session cookie is
\* decoded instead, which is no JWT.
get_current_user(f, sm, t, cookie) ==
    LET user_id == ToInt(t.sub)
        v == validate_session(Up(f, 2), sm, t.sid, user_id)
    IN  IF t = NoToken /\ cookie = 0 THEN [sm |-> sm, user |-> 0, code |-> 401]
        ELSE IF t = NoToken \/ ~DecodeOk(t) THEN [sm |-> sm, user |-> 0, code |-> 403]
        ELSE IF t.sid # 0 /\ ~v.ret THEN [sm |-> v.sm, user |-> 0, code |-> 401]
        ELSE LET sm2 == IF t.sid # 0
                        THEN update_session_activity(Up(f, 3), v.sm, t.sid).sm
                        ELSE sm
             IN  IF ~user_exists(user_id) THEN [sm |-> sm2, user |-> 0, code |-> 404]
                 ELSE [sm |-> sm2, user |-> user_id, code |-> 200]

\* AuthManager.refresh_access_token(db, refresh_token); str() of the subject read
\* from the token, a string already, is that string
refresh_access_token(f, sm, t) ==
    LET td == verify_token(Up(f, 1), t, "refresh")
        user_id == ToInt(td.user_id)
        v == IF td.session_id # 0
             THEN validate_session(Up(f, 2), sm, td.session_id, user_id)
             ELSE [sm |-> sm, ret |-> TRUE]
    IN  IF ~td.ok THEN [sm |-> sm, ok |-> FALSE, out |-> NoToken]
        ELSE IF ~v.ret THEN [sm |-> v.sm, ok |-> FALSE, out |-> NoToken]
        ELSE IF ~user_is_active(user_id) THEN [sm |-> v.sm, ok |-> FALSE, out |-> NoToken]
        ELSE [sm |-> IF td.session_id # 0
                     THEN update_session_activity(Up(f, 3), v.sm, td.session_id).sm
                     ELSE v.sm,
              ok |-> TRUE,
              out |-> create_access_token(user_id, td.session_id, 0)]

\* JWTAuthManager.refresh_access_token(db, refresh_token)
jwt_refresh_access_token(f, jbl, sm, t) ==
    LET td == jwt_verify_token(jbl, t, "refresh")
        user_id == ToInt(td.user_id)
        v == IF td.session_id # 0
             THEN validate_session(Up(f, 2), sm, td.session_id, user_id)
             ELSE [sm |-> sm, ret |-> TRUE]
        sm2 == IF td.session_id # 0 /\ v.ret
               THEN update_session_activity(Up(f, 3), v.sm, td.session_id).sm
               ELSE v.sm
    IN  IF ~td.ok THEN [sm |-> sm, ok |-> FALSE, out |-> NoToken]
        ELSE IF ~v.ret THEN [sm |-> sm2, ok |-> FALSE, out |-> NoToken]
        ELSE IF ~user_is_active(user_id) THEN [sm |-> sm2, ok |-> FALSE, out |-> NoToken]
        ELSE [sm |-> sm2, ok |-> TRUE,
              out |-> create_access_token(user_id, td.session_id, 0)]

\* the refresh_token endpoint: the dependency get_current_user, then revoke_token
\* of the bearer token, then security.create_access_token, which the security
\* module does not define: the AttributeError is caught and answered with 500
refresh_token(f, jbl, sm, t, cookie) ==
    LET g == get_current_user(f, sm, t, cookie)
        r == jwt_revoke_token(f, jbl, g.sm, t)
    IN  IF g.user = 0 THEN [jbl |-> jbl, sm |-> g.sm, ok |-> FALSE, out |-> NoToken,
                            code |-> g.code]
        ELSE [jbl |-> r.jbl, sm |-> r.sm, ok |-> FALSE, out |-> NoToken, code |-> 500]

\* AuthManager.logout_user(request): revoked / invalidated are what the two steps
\* returned, ret is the reported result
logout_user(f, bl, sm, t, cookie) ==
    LET r == IF t # NoToken THEN revoke_token(f, bl, sm, t)
             ELSE [bl |-> bl, sm |-> sm, ret |-> TRUE]
        d == IF cookie # 0 THEN deactivate_session(Up(f, 3), r.sm, cookie)
             ELSE [sm |-> r.sm, ret |-> TRUE]
    IN  [bl |-> r.bl, sm |-> d.sm, revoked |-> r.ret, invalidated |-> d.ret,
         ret |-> r.ret /\ d.ret, cleared |-> FALSE]

\* the logout endpoint: the dependency get_current_user, then revoke_token of the
\* bearer token and delete_session of the cookie's session in the
\* SimpleSessionManager, both return values dropped, then delete_cookie twice
logout(f, jbl, sm, m, t, cookie) ==
    LET g == get_current_user(f, sm, t, cookie)
        r == jwt_revoke_token(f, jbl, g.sm, t)
        d == IF cookie # 0 THEN simple_delete_session(m, cookie)
             ELSE [m |-> m, ret |-> TRUE]
    IN  IF g.user = 0
        THEN [jbl |-> jbl, sm |-> g.sm, m |-> m, entered |-> FALSE, revoked |-> FALSE,
              invalidated |-> FALSE, ret |-> FALSE, cleared |-> FALSE]
        ELSE [jbl |-> r.jbl, sm |-> r.sm, m |-> d.m, entered |-> TRUE,
              revoked |-> r.ret, invalidated |-> d.ret,
              ret |-> TRUE, cleared |-> TRUE]

\* ---------------------------------------------------------- call records
\* what the last call was given and what it returned
NoCall == [op |-> "none", tok |-> NoToken, typ |-> "none", sid |-> 0, ok |-> FALSE,
           user |-> 0, payload |-> NoPayload, out |-> NoToken, up |-> TRUE,
           a |-> FALSE, b |-> FALSE, cleared |-> FALSE, n |-> 0]

tokVars == <<issued, tokLog>>
hbVars == <<hb, hbLog>>
blVars == <<blSet, blSetExp, blRecs, nextBl, revoked, jwtBl>>
smVars == <<rs, rsIdx, rsIdxExp>>
envVars == <<now, tzOffset, redisUp, userState>>

SetBL(bl) ==
    /\ blSet' = bl.set
    /\ blSetExp' = bl.exp
    /\ blRecs' = bl.recs
    /\ nextBl' = bl.next

SetSM(sm) ==
    /\ rs' = sm.s
    /\ rsIdx' = sm.idx
    /\ rsIdxExp' = sm.idxExp

\* ------------------------------------------------------------ environment
\* One second passes; the store drops every key whose TTL has elapsed.
Tick ==
    /\ now < MaxTime
    /\ now' = now + 1
    /\ blSet' = IF blSetExp # 0 /\ blSetExp <= now + 1 THEN {} ELSE blSet
    /\ blSetExp' = IF blSetExp # 0 /\ blSetExp <= now + 1 THEN 0 ELSE blSetExp
    /\ blRecs' = {r \in blRecs : r.dropAt > now + 1}
    /\ rs' = [s \in {x \in DOMAIN rs : rs[x].dropAt > now + 1} |-> rs[s]]
    /\ rsIdx' = [u \in Users |-> IF rsIdxExp[u] # 0 /\ rsIdxExp[u] <= now + 1
                                 THEN {} ELSE rsIdx[u]]
    /\ rsIdxExp' = [u \in Users |-> IF rsIdxExp[u] # 0 /\ rsIdxExp[u] <= now + 1
                                    THEN 0 ELSE rsIdxExp[u]]
    /\ hb' = [hb EXCEPT !.s = [x \in {y \in DOMAIN hb.s : hb.s[y].dropAt >= now + 1}
                                  |-> hb.s[x]]]
    /\ last' = NoCall
    /\ UNCHANGED <<tzOffset, redisUp, userState, tokVars, nextBl, revoked, jwtBl, ss,
                   nextSid, sessLog, pend, hbLog, task>>

\* The store becomes unreachable, or reachable again.
RedisFlip ==
    /\ redisUp' = ~redisUp
    /\ last' = NoCall
    /\ UNCHANGED <<now, tzOffset, userState, tokVars, blVars, smVars, ss, nextSid,
                   sessLog, pend, hbVars, task>>

\* ------------------------------------------------------- token actions
\* create_access_token / create_refresh_token called directly
IssueToken(u, sid, typ, ttl) ==
    LET t == IF typ = "access" THEN create_access_token(u, sid, ttl)
                               ELSE create_refresh_token(u, sid, ttl)
    IN  /\ t \notin issued
        /\ issued' = issued \cup {t}
        /\ tokLog' = tokLog \cup {[tok |-> t, subject |-> u, session_id |-> sid,
                                   typ |-> typ, at |-> now, ttl |-> ttl]}
        /\ last' = NoCall
        /\ UNCHANGED <<envVars, blVars, smVars, ss, nextSid, sessLog, pend, hbVars, task>>

\* TokenBlacklistManager.add_token(token, expires_at) with the token's own expiry,
\* or add_token(token) with none
AddToken(t, hasExp) ==
    LET r == add_token(redisUp, BL, t, hasExp, t.exp)
    IN  /\ nextBl < MaxBl
        /\ SetBL(r.bl)
        /\ revoked' = IF r.ret /\ now < t.exp THEN revoked \cup {t} ELSE revoked
        /\ last' = [NoCall EXCEPT !.op = "add_token", !.ok = r.ret]
        /\ UNCHANGED <<envVars, tokVars, jwtBl, smVars, ss, nextSid, sessLog, pend, hbVars, task>>

RemoveToken(t) ==
    LET r == remove_token(redisUp, BL, t)
    IN  /\ SetBL(r.bl)
        /\ revoked' = IF r.ret THEN revoked \ {t} ELSE revoked
        /\ last' = [NoCall EXCEPT !.op = "remove_token", !.ok = r.ret]
        /\ UNCHANGED <<envVars, tokVars, jwtBl, smVars, ss, nextSid, sessLog, pend, hbVars, task>>

CleanupExpiredTokens ==
    LET r == cleanup_expired_tokens(redisUp, BL)
    IN  /\ SetBL(r.bl)
        /\ last' = [NoCall EXCEPT !.op = "cleanup_tokens", !.n = r.ret,
                                  !.a = (last.op = "cleanup_tokens")]
        /\ UNCHANGED <<envVars, tokVars, revoked, jwtBl, smVars, ss, nextSid, sessLog,
                       pend, hbVars, task>>

\* AuthManager.verify_token(token, token_type)
VerifyToken(t, token_type) ==
    /\ last' = [NoCall EXCEPT !.op = "verify_token", !.tok = t, !.typ = token_type,
                              !.ok = verify_token(redisUp, t, token_type).ok,
                              !.payload = verify_token(redisUp, t, token_type),
                              !.up = redisUp]
    /\ UNCHANGED <<envVars, tokVars, blVars, smVars, ss, nextSid, sessLog, pend, hbVars, task>>

\* JWTAuthManager.verify_token(token, token_type)
JwtVerifyToken(t, token_type) ==
    /\ last' = [NoCall EXCEPT !.op = "jwt_verify_token", !.tok = t, !.typ = token_type,
                              !.ok = jwt_verify_token(jwtBl, t, token_type).ok,
                              !.payload = jwt_verify_token(jwtBl, t, token_type)]
    /\ UNCHANGED <<envVars, tokVars, blVars, smVars, ss, nextSid, sessLog, pend, hbVars, task>>

\* JWTAuthManager.revoke_token(token)
JwtRevokeToken(t) ==
    LET r == jwt_revoke_token(0, jwtBl, SM, t)
    IN  /\ jwtBl' = r.jbl
        /\ SetSM(r.sm)
        /\ sessLog' = IF DecodeOk(t) /\ t.sid # 0 /\ r.invalidated
                      THEN [sessLog EXCEPT ![t.sid].deact = TRUE] ELSE sessLog
        /\ last' = [NoCall EXCEPT !.op = "jwt_revoke_token", !.ok = r.ret]
        /\ UNCHANGED <<envVars, tokVars, blSet, blSetExp, blRecs, nextBl, revoked, ss,
                       nextSid, pend, hbVars, task>>

\* ------------------------------------------------------- session actions
NewLog(mgr, ttl) ==
    [mgr |-> mgr, at |-> now, ttl |-> ttl, extended |-> FALSE, deact |-> FALSE,
     deleted |-> FALSE, outTok |-> NoToken]

LogWith(sid, entry) ==
    [x \in DOMAIN sessLog \cup {sid} |-> IF x = sid THEN entry ELSE sessLog[x]]

AllocatedSids == 1..nextSid

\* SessionManager.create_session(user_id, expires_in=...); expires_in 0 is None
CreateSession(u, expires_in) ==
    LET sid == nextSid + 1
    IN  /\ nextSid' = sid
        /\ SetSM(create_session(redisUp, SM, sid, u, expires_in))
        /\ sessLog' = LogWith(sid, NewLog("redis",
                          IF expires_in > 0 THEN expires_in ELSE DefaultSessionExpire))
        /\ last' = NoCall
        /\ UNCHANGED <<envVars, tokVars, blVars, ss, pend, hbVars, task>>

\* SimpleSessionManager.create_session(user_id, expires_in=...)
SimpleCreateSession(u, expires_in) ==
    LET sid == nextSid + 1
    IN  /\ nextSid' = sid
        /\ ss' = simple_create_session(ss, sid, u, expires_in)
        /\ sessLog' = LogWith(sid, NewLog("simple",
                          IF expires_in > 0 THEN expires_in ELSE SimpleDefaultExpire))
        /\ last' = NoCall
        /\ UNCHANGED <<envVars, tokVars, blVars, smVars, pend, hbVars, task>>

\* SessionManager.validate_session(session_id, user_id); fault: the store raises
\* during this call
ValidateSession(sid, uid, fault) ==
    LET r == validate_session(redisUp /\ ~fault, SM, sid, uid)
    IN  /\ SetSM(r.sm)
        /\ last' = [NoCall EXCEPT !.op = "validate_session", !.sid = sid, !.user = uid,
                                  !.ok = r.ret, !.up = redisUp /\ ~fault]
        /\ UNCHANGED <<envVars, tokVars, blVars, ss, nextSid, sessLog, pend, hbVars, task>>

\* SimpleSessionManager.validate_session(session_id, user_id)
SimpleValidateSession(sid, uid) ==
    LET r == simple_validate_session(ss, sid, uid)
    IN  /\ ss' = r.m
        /\ last' = [NoCall EXCEPT !.op = "simple_validate_session", !.sid = sid,
                                  !.user = uid, !.ok = r.ret]
        /\ UNCHANGED <<envVars, tokVars, blVars, smVars, nextSid, sessLog, pend, hbVars, task>>

\* SessionManager.delete_session(session_id)
DeleteSession(sid) ==
    LET r == delete_session(redisUp, SM, sid)
    IN  /\ SetSM(r.sm)
        /\ sessLog' = IF r.ret THEN [sessLog EXCEPT ![sid].deleted = TRUE] ELSE sessLog
        /\ last' = [NoCall EXCEPT !.op = "delete_session", !.sid = sid, !.ok = r.ret]
        /\ UNCHANGED <<envVars, tokVars, blVars, ss, nextSid, pend, hbVars, task>>

\* SessionManager.deactivate_session(session_id), not interleaved with other calls
DeactivateSession(sid) ==
    LET r == deactivate_session(redisUp, SM, sid)
    IN  /\ SetSM(r.sm)
        /\ sessLog' = IF r.ret THEN [sessLog EXCEPT ![sid].deact = TRUE] ELSE sessLog
        /\ last' = [NoCall EXCEPT !.op = "deactivate_session", !.sid = sid, !.ok = r.ret]
        /\ UNCHANGED <<envVars, tokVars, blVars, ss, nextSid, pend, hbVars, task>>

\* SessionManager.extend_session(session_id, extend_seconds), not interleaved
\* with other calls; extend_seconds 0 is None
ExtendSession(sid, extend_seconds) ==
    LET r == extend_session(redisUp, SM, sid, extend_seconds)
    IN  /\ SetSM(r.sm)
        /\ sessLog' = IF r.ret THEN [sessLog EXCEPT ![sid].extended = TRUE] ELSE sessLog
        /\ last' = [NoCall EXCEPT !.op = "extend_session", !.sid = sid, !.ok = r.ret]
        /\ UNCHANGED <<envVars, tokVars, blVars, ss, nextSid, pend, hbVars, task>>

\* SessionManager.delete_user_sessions(user_id, exclude_session)
DeleteUserSessions(u, exclude_session) ==
    LET r == delete_user_sessions(redisUp, SM, u, exclude_session)
    IN  /\ SetSM(r.sm)
        /\ last' = [NoCall EXCEPT !.op = "delete_user_sessions", !.user = u,
                                  !.sid = exclude_session, !.n = r.ret, !.up = redisUp]
        /\ UNCHANGED <<envVars, tokVars, blVars, ss, nextSid, sessLog, pend, hbVars, task>>

\* SimpleSessionManager.deactivate_user_sessions(user_id, except_session_id)
SimpleDeactivateUserSessions(u, except_session_id) ==
    LET r == simple_deactivate_user_sessions(ss, u, except_session_id)
    IN  /\ ss' = r.m
        /\ sessLog' = [x \in DOMAIN sessLog |->
                         IF x \in DOMAIN r.m /\ ~r.m[x].is_active
                         THEN [sessLog[x] EXCEPT !.deact = TRUE] ELSE sessLog[x]]
        /\ last' = [NoCall EXCEPT !.op = "simple_deactivate_user_sessions", !.user = u,
                                  !.sid = except_session_id, !.n = r.ret]
        /\ UNCHANGED <<envVars, tokVars, blVars, smVars, nextSid, pend, hbVars, task>>

\* DELETE /admin/invalidate/{user_id} called by the superuser current_user
AdminInvalidateUserSessions(user_id, current_user) ==
    LET r == admin_invalidate_user_sessions(redisUp, SM, user_id, current_user)
    IN  /\ SetSM(r.sm)
        /\ last' = [NoCall EXCEPT !.op = "admin_invalidate_user_sessions",
                                  !.user = user_id, !.n = r.ret, !.up = redisUp]
        /\ UNCHANGED <<envVars, tokVars, blVars, ss, nextSid, sessLog, pend, hbVars, task>>

\* SessionManager.cleanup_expired_sessions(); a: the call before this one was
\* the same cleanup
CleanupExpiredSessions ==
    LET r == cleanup_expired_sessions(redisUp, SM)
    IN  /\ SetSM(r.sm)
        /\ last' = [NoCall EXCEPT !.op = "cleanup_expired_sessions", !.n = r.ret,
                                  !.a = (last.op = "cleanup_expired_sessions"),
                                  !.up = redisUp]
        /\ UNCHANGED <<envVars, tokVars, blVars, ss, nextSid, sessLog, pend, hbVars, task>>

\* SimpleSessionManager.cleanup_expired_sessions()
SimpleCleanupExpiredSessions ==
    LET r == simple_cleanup_expired_sessions(ss)
    IN  /\ ss' = r.m
        /\ last' = [NoCall EXCEPT !.op = "simple_cleanup_expired_sessions", !.n = r.ret,
                                  !.a = (last.op = "simple_cleanup_expired_sessions")]
        /\ UNCHANGED <<envVars, tokVars, blVars, smVars, nextSid, sessLog, pend, hbVars, task>>

\* HeartbeatManager.record_heartbeat for a session of user u
RecordHeartbeat(sid, u) ==
    LET r == record_heartbeat(redisUp, hb, sid, u)
    IN  /\ hb.count[sid] < MaxBeats
        /\ hb' = r.hb
        /\ hbLog' = IF r.ret = "recorded"
                    THEN [hbLog EXCEPT ![sid] = [rec |-> TRUE, at |-> now, marks |-> 0]]
                    ELSE hbLog
        /\ last' = [NoCall EXCEPT !.op = "record_heartbeat", !.sid = sid, !.user = u,
                                  !.ok = (r.ret = "recorded"), !.up = redisUp]
        /\ UNCHANGED <<envVars, tokVars, blVars, smVars, ss, nextSid, sessLog, pend, task>>

\* HeartbeatManager.mark_missed_heartbeat; a: the summary was stored at the call
MarkMissedHeartbeat(sid) ==
    LET r == mark_missed_heartbeat(redisUp, hb, sid)
    IN  /\ hbLog[sid].marks < MaxMarks
        /\ hb' = r.hb
        /\ hbLog' = [hbLog EXCEPT ![sid].marks = @ + 1]
        /\ last' = [NoCall EXCEPT !.op = "mark_missed_heartbeat", !.sid = sid,
                                  !.ok = r.ret, !.a = has_heartbeat(hb, sid),
                                  !.up = redisUp]
        /\ UNCHANGED <<envVars, tokVars, blVars, smVars, ss, nextSid, sessLog, pend, task>>

\* mark_missed_heartbeat, command by command; requests and background tasks
\* run concurrently, so other calls may run between its two commands.  First
\* command: get of the summary key.
BeginMarkMissed(sid) ==
    /\ redisUp
    /\ has_heartbeat(hb, sid)
    /\ Cardinality(hb.reads) < MaxPending
    /\ hbLog[sid].marks < MaxMarks
    /\ hb' = [hb EXCEPT !.reads = @ \cup {[sid |-> sid, info |-> hb.s[sid]]}]
    /\ last' = NoCall
    /\ UNCHANGED <<envVars, tokVars, blVars, smVars, ss, nextSid, sessLog, pend, hbLog, task>>

\* Second command: setex of the summary that was read, with its missed_count
\* raised by one; the call returns.  A store failure raises, the call returns
\* False.
FinishMarkMissed(r) ==
    LET missed_count == r.info.missed_count + 1
        info == [r.info EXCEPT !.missed_count = missed_count, !.status = "missed"]
    IN  /\ hb' = [hb EXCEPT !.reads = @ \ {r},
                            !.s = IF redisUp THEN set_summary(hb, r.sid, info) ELSE @]
        /\ hbLog' = [hbLog EXCEPT ![r.sid].marks = @ + 1]
        /\ last' = [NoCall EXCEPT !.op = "mark_missed_heartbeat", !.sid = r.sid,
                                  !.ok = redisUp /\ missed_count >= MaxMissedHeartbeats,
                                  !.a = TRUE, !.up = redisUp]
        /\ UNCHANGED <<envVars, tokVars, blVars, smVars, ss, nextSid, sessLog, pend, task>>

\* HeartbeatManager.check_session_heartbeat_status; typ: the status returned,
\* ok: is_alive, n: missed_count
CheckSessionHeartbeatStatus(sid) ==
    LET r == check_session_heartbeat_status(redisUp, hb, sid)
    IN  /\ last' = [NoCall EXCEPT !.op = "check_session_heartbeat_status", !.sid = sid,
                                  !.typ = r.status, !.ok = r.is_alive,
                                  !.n = r.missed_count, !.a = has_heartbeat(hb, sid),
                                  !.up = redisUp]
        /\ UNCHANGED <<envVars, tokVars, blVars, smVars, ss, nextSid, sessLog, pend,
                       hbVars, task>>

\* update_session_activity and extend_session of SessionManager are
\* read-modify-write sequences of store commands; requests run concurrently, so
\* other calls may run between the commands.  First command: get_session.  The
\* record to write is computed from what was read.
BeginUpdate(op, sid, ext) ==
    /\ Cardinality(pend) < MaxPending
    /\ has_session(redisUp, SM, sid)
    /\ LET d == rs[sid]
           e == IF ext > 0 THEN ext ELSE DefaultSessionExpire
       IN  pend' = pend \cup
             {[op |-> op, sid |-> sid,
               data |-> IF op = "touch" THEN [d EXCEPT !.last_activity = now]
                        ELSE [d EXCEPT !.expires_at = now + e],
               ttl |-> IF op = "extend" THEN e ELSE 0 - 1]}
    /\ sessLog' = IF op = "extend" THEN [sessLog EXCEPT ![sid].extended = TRUE]
                  ELSE sessLog
    /\ last' = NoCall
    /\ UNCHANGED <<envVars, tokVars, blVars, smVars, ss, nextSid, hbVars, task>>

\* Second command of update_session_activity: redis_client.ttl(session_key),
\* -2 when the key is gone
ReadTtl(p) ==
    /\ p.ttl = 0 - 1
    /\ redisUp
    /\ pend' = (pend \ {p}) \cup
               {[p EXCEPT !.ttl = IF p.sid \in DOMAIN rs THEN rs[p.sid].dropAt - now
                                  ELSE 0 - 2]}
    /\ last' = NoCall
    /\ UNCHANGED <<envVars, tokVars, blVars, smVars, ss, nextSid, sessLog, hbVars, task>>

\* the record setex writes: the data read earlier, under the TTL computed earlier
WriteBack(sm, p) ==
    [sm EXCEPT !.s = [x \in DOMAIN sm.s \cup {p.sid} |->
                        IF x = p.sid THEN [p.data EXCEPT !.dropAt = now + p.ttl]
                        ELSE sm.s[x]]]

\* Last command: setex(session_key, ttl, data) when ttl > 0; the call returns.
\* A store failure raises inside the call, which then returns False.
FinishUpdate(p) ==
    LET done == redisUp /\ p.ttl > 0
    IN  /\ p.ttl # 0 - 1 \/ ~redisUp
        /\ pend' = pend \ {p}
        /\ SetSM(IF done THEN WriteBack(SM, p) ELSE SM)
        /\ last' = [NoCall EXCEPT !.op = p.op, !.sid = p.sid, !.ok = done]
        /\ UNCHANGED <<envVars, tokVars, blVars, ss, nextSid, sessLog, hbVars, task>>

\* update_session_activity / extend_session called for an id under which
\* get_session finds nothing: the call returns False at once
UpdateMissing(op, sid) ==
    /\ ~has_session(redisUp, SM, sid)
    /\ last' = [NoCall EXCEPT !.op = op, !.sid = sid, !.ok = FALSE, !.up = redisUp]
    /\ UNCHANGED <<envVars, tokVars, blVars, smVars, ss, nextSid, sessLog, pend, hbVars, task>>

\* SimpleSessionManager.update_session_activity(session_id)
SimpleUpdateSessionActivity(sid) ==
    LET r == simple_update_session_activity(ss, sid)
    IN  /\ ss' = r.m
        /\ last' = [NoCall EXCEPT !.op = "simple_touch", !.sid = sid, !.ok = r.ret]
        /\ UNCHANGED <<envVars, tokVars, blVars, smVars, nextSid, sessLog, pend, hbVars, task>>

\* SimpleSessionManager: update_session_activity, deactivate_session,
\* delete_session, cleanup_expired_sessions
SimpleUpdate(op, sid) ==
    LET r == IF op = "touch" THEN simple_update_session_activity(ss, sid)
             ELSE IF op = "deactivate" THEN simple_deactivate_session(ss, sid)
             ELSE IF op = "delete" THEN simple_delete_session(ss, sid)
             ELSE simple_cleanup_expired_sessions(ss)
    IN  /\ ss' = r.m
        /\ sessLog' = IF op = "deactivate" /\ r.ret
                      THEN [sessLog EXCEPT ![sid].deact = TRUE] ELSE sessLog
        /\ last' = NoCall
        /\ UNCHANGED <<envVars, tokVars, blVars, smVars, nextSid, pend, hbVars, task>>

\* --------------------------------------------------- login and requests
LogToken(t, subject, session_id, ttl) ==
    [tok |-> t, subject |-> subject, session_id |-> session_id, typ |-> t.typ,
     at |-> now, ttl |-> ttl]

\* AuthManager.create_token_pair_with_session(user_id) for a user who logged in
LoginSession(u) ==
    LET sid == nextSid + 1
        access_token == create_access_token(u, sid, 0)
        refresh_tok == create_refresh_token(u, sid, 0)
    IN  /\ user_is_active(u)
        /\ nextSid' = sid
        /\ SetSM(create_session(redisUp, SM, sid, u, 0))
        /\ issued' = issued \cup {access_token, refresh_tok}
        /\ tokLog' = tokLog \cup {LogToken(access_token, u, sid, AccessTokenExpire),
                                  LogToken(refresh_tok, u, sid, RefreshTokenExpire)}
        /\ sessLog' = LogWith(sid, NewLog("redis", DefaultSessionExpire))
        /\ last' = NoCall
        /\ UNCHANGED <<envVars, blVars, ss, pend, hbVars, task>>

\* the login endpoint, for a user whose password matched
LoginEndpoint(u) ==
    LET sid == nextSid + 1
        access_token == create_access_token(u, sid, AccessTokenExpire)
    IN  /\ user_is_active(u)
        /\ nextSid' = sid
        /\ ss' = simple_create_session(ss, sid, u, SessionExpireSeconds)
        /\ issued' = issued \cup {access_token}
        /\ tokLog' = tokLog \cup {LogToken(access_token, u, sid, AccessTokenExpire)}
        /\ sessLog' = LogWith(sid, NewLog("simple", SessionExpireSeconds))
        /\ last' = NoCall
        /\ UNCHANGED <<envVars, blVars, smVars, pend, hbVars, task>>

\* an administrator activates or deactivates a user
SetUserState(u, st) ==
    /\ userState[u] # st
    /\ userState' = [userState EXCEPT ![u] = st]
    /\ last' = NoCall
    /\ UNCHANGED <<now, tzOffset, redisUp, tokVars, blVars, smVars, ss, nextSid,
                   sessLog, pend, hbVars, task>>

\* the token is a signed, unexpired access token that is not in the registry, its
\* session is stored, active, unexpired and owned by its subject, the cookie
\* names that session and the user is active
Acceptable(t, cookie) ==
    /\ DecodeOk(t)
    /\ t.typ = "access"
    /\ HashToken(t) \notin blSet
    /\ t.sid \in DOMAIN rs
    /\ rs[t.sid].is_active
    /\ ~(now > rs[t.sid].expires_at)
    /\ rs[t.sid].user_id = ToInt(t.sub)
    /\ cookie = t.sid
    /\ user_is_active(ToInt(t.sub))

\* a request through AuthManager.triple_verify_authentication
TripleVerify(t, cookie, f) ==
    LET r == triple_verify_authentication(f, SM, t, cookie)
    IN  /\ SetSM(r.sm)
        /\ last' = [NoCall EXCEPT !.op = "triple_verify", !.user = r.user, !.tok = t,
                                  !.ok = r.user # 0, !.up = Up(f, 1) /\ Up(f, 2),
                                  !.a = Acceptable(t, cookie)]
        /\ UNCHANGED <<envVars, tokVars, blVars, ss, nextSid, sessLog, pend, hbVars, task>>

\* a request through the dependency get_current_user
GetCurrentUser(t, cookie, f) ==
    LET r == get_current_user(f, SM, t, cookie)
    IN  /\ SetSM(r.sm)
        /\ last' = [NoCall EXCEPT !.op = "get_current_user", !.user = r.user, !.tok = t,
                                  !.ok = r.user # 0, !.up = t.sid = 0 \/ Up(f, 2)]
        /\ UNCHANGED <<envVars, tokVars, blVars, ss, nextSid, sessLog, pend, hbVars, task>>

\* the session of token t is stored in the shared store, active, unexpired and
\* owned by the token's subject
SessionLive(t) ==
    /\ t.sid \in DOMAIN rs
    /\ rs[t.sid].is_active
    /\ ~(now > rs[t.sid].expires_at)
    /\ rs[t.sid].user_id = ToInt(t.sub)

\* t is a refresh token the server issued, unexpired and not revoked
ValidRefresh(t) ==
    /\ t \in issued
    /\ t.typ = "refresh"
    /\ DecodeOk(t)
    /\ t \notin revoked
    /\ t \notin jwtBl

\* what a refresh call was given and what it did: a, the token was a valid
\* refresh token of a live session of an active user and the store answered;
\* b, the token's session was not live; sid, the sessions allocated before
RefreshRecord(op, t, f, ok, out) ==
    [NoCall EXCEPT !.op = op, !.tok = t, !.ok = ok, !.out = out,
                   !.a = ValidRefresh(t) /\ SessionLive(t) /\ redisUp /\ f = 0
                         /\ user_is_active(ToInt(t.sub)),
                   !.b = t.sid # 0 /\ ~SessionLive(t),
                   !.sid = nextSid]

IssueRefreshed(r) ==
    /\ issued' = IF r.ok THEN issued \cup {r.out} ELSE issued
    /\ tokLog' = IF r.ok
                 THEN tokLog \cup {LogToken(r.out, ToInt(r.out.sub), r.out.sid,
                                            AccessTokenExpire)}
                 ELSE tokLog

\* AuthManager.refresh_access_token
RefreshAccessToken(t, f) ==
    LET r == refresh_access_token(f, SM, t)
    IN  /\ SetSM(r.sm)
        /\ IssueRefreshed(r)
        /\ last' = RefreshRecord("refresh_access_token", t, f, r.ok, r.out)
        /\ UNCHANGED <<envVars, blVars, ss, nextSid, sessLog, pend, hbVars, task>>

\* JWTAuthManager.refresh_access_token
JwtRefreshAccessToken(t, f) ==
    LET r == jwt_refresh_access_token(f, jwtBl, SM, t)
    IN  /\ SetSM(r.sm)
        /\ IssueRefreshed(r)
        /\ last' = RefreshRecord("jwt_refresh_access_token", t, f, r.ok, r.out)
        /\ UNCHANGED <<envVars, blVars, ss, nextSid, sessLog, pend, hbVars, task>>

\* the refresh_token endpoint
RefreshEndpoint(t, cookie, f) ==
    LET r == refresh_token(f, jwtBl, SM, t, cookie)
    IN  /\ SetSM(r.sm)
        /\ jwtBl' = r.jbl
        /\ IssueRefreshed(r)
        /\ last' = RefreshRecord("refresh_token", t, f, r.ok, r.out)
        /\ UNCHANGED <<envVars, blSet, blSetExp, blRecs, nextBl, revoked, ss, nextSid,
                       sessLog, pend, hbVars, task>>

\* AuthManager.revoke_token
RevokeToken(t, f) ==
    LET r == revoke_token(f, BL, SM, t)
    IN  /\ nextBl < MaxBl
        /\ SetBL(r.bl)
        /\ SetSM(r.sm)
        /\ revoked' = IF r.blacklisted THEN revoked \cup {t} ELSE revoked
        /\ sessLog' = IF DecodeOk(t) /\ t.sid # 0 /\ r.invalidated
                      THEN [sessLog EXCEPT ![t.sid].deact = TRUE] ELSE sessLog
        /\ last' = [NoCall EXCEPT !.op = "revoke_token", !.ok = r.ret]
        /\ UNCHANGED <<envVars, tokVars, jwtBl, ss, nextSid, pend, hbVars, task>>

\* AuthManager.logout_user
LogoutUser(t, cookie, f) ==
    LET r == logout_user(f, BL, SM, t, cookie)
    IN  /\ nextBl < MaxBl
        /\ SetBL(r.bl)
        /\ SetSM(r.sm)
        /\ revoked' = IF t # NoToken /\ r.revoked THEN revoked \cup {t} ELSE revoked
        /\ sessLog' = [x \in DOMAIN sessLog |->
                         [sessLog[x] EXCEPT
                            !.deact = @ \/ (x \in DOMAIN r.sm.s /\ ~r.sm.s[x].is_active),
                            !.outTok = IF r.ret /\ t.typ = "access" /\ t.sid = x
                                          /\ cookie = x
                                       THEN t ELSE @]]
        /\ last' = [NoCall EXCEPT !.op = "logout_user", !.a = r.revoked,
                                  !.b = r.invalidated, !.ok = r.ret,
                                  !.cleared = r.cleared]
        /\ UNCHANGED <<envVars, tokVars, jwtBl, ss, nextSid, pend, hbVars, task>>

\* the logout endpoint
LogoutEndpoint(t, cookie, f) ==
    LET r == logout(f, jwtBl, SM, ss, t, cookie)
    IN  /\ SetSM(r.sm)
        /\ jwtBl' = r.jbl
        /\ ss' = r.m
        /\ sessLog' = [x \in DOMAIN sessLog |->
                         IF x \in DOMAIN r.sm.s /\ ~r.sm.s[x].is_active
                         THEN [sessLog[x] EXCEPT !.deact = TRUE] ELSE sessLog[x]]
        /\ last' = [NoCall EXCEPT !.op = IF r.entered THEN "logout"
                                         ELSE "logout_rejected",
                                  !.a = r.revoked, !.b = r.invalidated, !.ok = r.ret,
                                  !.cleared = r.cleared]
        /\ UNCHANGED <<envVars, tokVars, blSet, blSetExp, blRecs, nextBl, revoked,
                       nextSid, pend, hbVars, task>>

\* ------------------------------------------------------------ initial state
Init ==
    /\ now = 0
    /\ tzOffset \in TzOffsets
    /\ redisUp = TRUE
    /\ userState = [u \in Users |-> "active"]
    /\ issued = {}
    /\ tokLog = {}
    /\ blSet = {}
    /\ blSetExp = 0
    /\ blRecs = {}
    /\ nextBl = 0
    /\ revoked = {}
    /\ jwtBl = {}
    /\ rs = <<>>
    /\ rsIdx = [u \in Users |-> {}]
    /\ rsIdxExp = [u \in Users |-> 0]
    /\ ss = <<>>
    /\ nextSid = 0
    /\ sessLog = <<>>
    /\ pend = {}
    /\ hb = [s |-> <<>>, count |-> [x \in HbSessions |-> 0], recs |-> {}, total |-> 0,
             reads |-> {}]
    /\ hbLog = [x \in HbSessions |-> [rec |-> FALSE, at |-> 0, marks |-> 0]]
    /\ task = [pc |-> "none", wakeAt |-> 0, todo |-> {}, cancel |-> FALSE, fails |-> 0]
    /\ last = NoCall

\* ---------------------------------------------- the revocation registry alone
InitRevocation == Init /\ tzOffset = 0

NextRevocation ==
    \/ Tick
    \/ RedisFlip
    \/ /\ Cardinality(issued) < MaxTokens
       /\ \E typ \in TokenTypes, ttl \in 1..MaxTtl : IssueToken(1, 0, typ, ttl)
    \/ \E t \in issued, hasExp \in BOOLEAN : AddToken(t, hasExp)
    \/ \E t \in issued : RemoveToken(t)
    \/ CleanupExpiredTokens

SpecRevocation == InitRevocation /\ [][NextRevocation]_vars

\* C1: a token whose add_token succeeded while it was unexpired is reported
\* blacklisted and rejected by verify_token until its own expiry, unless it was
\* removed explicitly.
RevocationPrecedence ==
    \A t \in revoked :
        now < t.exp => is_blacklisted(redisUp, t) /\ ~verify_token(redisUp, t, t.typ).ok

\* ------------------------------------------------- the two session stores
InitSession == Init /\ tzOffset = 0

NextSession ==
    \/ Tick
    \/ RedisFlip
    \/ /\ nextSid < MaxSessions
       /\ \E u \in Users, e \in 0..MaxTtl : CreateSession(u, e)
    \/ /\ nextSid < MaxSessions
       /\ \E u \in Users, e \in 0..MaxTtl : SimpleCreateSession(u, e)
    \/ \E sid \in AllocatedSids, u \in Users, f \in BOOLEAN : ValidateSession(sid, u, f)
    \/ \E sid \in AllocatedSids, u \in Users : SimpleValidateSession(sid, u)
    \/ \E sid \in AllocatedSids : DeleteSession(sid)
    \/ \E sid \in AllocatedSids : DeactivateSession(sid)
    \/ \E sid \in AllocatedSids : BeginUpdate("touch", sid, 0)
    \/ \E sid \in AllocatedSids, e \in 0..MaxTtl : BeginUpdate("extend", sid, e)
    \/ \E p \in pend : ReadTtl(p)
    \/ \E p \in pend : FinishUpdate(p)
    \/ \E op \in {"touch", "deactivate", "delete"}, sid \in AllocatedSids :
          SimpleUpdate(op, sid)
    \/ SimpleUpdate("cleanup", 0)

SpecSession == InitSession /\ [][NextSession]_vars

\* C5: validate_session returns true only for a stored, active, unexpired session
\* of the given user, and never again once deactivate_session returned true.
ValidateOnlyLiveSessions ==
    /\ last.op = "validate_session" /\ last.ok =>
          /\ last.sid \in DOMAIN rs
          /\ rs[last.sid].is_active
          /\ ~(now > rs[last.sid].expires_at)
          /\ rs[last.sid].user_id = last.user
    /\ last.op = "simple_validate_session" /\ last.ok =>
          /\ last.sid \in DOMAIN ss
          /\ ss[last.sid].is_active
          /\ ~(now > ss[last.sid].expires_at)
          /\ ss[last.sid].user_id = last.user
    /\ \A sid \in DOMAIN sessLog : \A u \in Users :
          sessLog[sid].deact =>
             /\ ~validate_session(redisUp, SM, sid, u).ret
             /\ ~simple_validate_session(ss, sid, u).ret

\* ------------------------------------------------ login and requests
Faults == 0..MaxFault
Presented == issued \cup {NoToken, ForgedToken}
Cookies == 0..nextSid

InitAuth == Init /\ tzOffset = 0

NextAuth ==
    \/ Tick
    \/ \E u \in Users, st \in {"active", "inactive"} : SetUserState(u, st)
    \/ /\ nextSid < MaxLogins
       /\ \E u \in Users : LoginSession(u)
    \/ /\ nextSid < MaxLogins
       /\ \E u \in Users : LoginEndpoint(u)
    \/ \E t \in Presented, c \in Cookies : TripleVerify(t, c, 0)
    \/ \E t \in Presented, c \in Cookies : GetCurrentUser(t, c, 0)

SpecAuth == InitAuth /\ [][NextAuth]_vars

Unrevoked(t) == t \notin revoked /\ t \notin jwtBl

\* C2: a request whose token is validly signed, unexpired, unrevoked and carries
\* session id A, and whose session cookie carries another id B, is rejected by
\* triple_verify_authentication and by get_current_user, whatever the state of
\* the sessions A and B.
CookieTokenBinding ==
    \A t \in issued : \A c \in 1..MaxLogins :
        (DecodeOk(t) /\ Unrevoked(t) /\ t.sid # 0 /\ c # t.sid)
        => /\ triple_verify_authentication(0, SM, t, c).user = 0
           /\ get_current_user(0, SM, t, c).user = 0

\* the session a login created is still there: stored by the manager that
\* created it, active and unexpired
LoginSessionLive(sid) ==
    /\ sid \in DOMAIN sessLog
    /\ IF sessLog[sid].mgr = "redis"
       THEN sid \in DOMAIN rs /\ rs[sid].is_active /\ ~(now > rs[sid].expires_at)
       ELSE sid \in DOMAIN ss /\ ss[sid].is_active /\ ~(now > ss[sid].expires_at)

\* C3: the access token and the session id that a login returned authenticate
\* as the user who logged in, as long as the token is unexpired and unrevoked,
\* the session is live and the user is active.
LoginAuthenticates ==
    \A t \in issued :
        (t.typ = "access" /\ t.sid # 0 /\ DecodeOk(t) /\ Unrevoked(t)
            /\ LoginSessionLive(t.sid) /\ user_is_active(ToInt(t.sub)))
        => get_current_user(0, SM, t, t.sid).user = ToInt(t.sub)

\* C4: a refresh token is never accepted by verify_token with its default type,
\* by triple_verify_authentication or by get_current_user, and an access token is
\* never accepted by refresh_access_token.
TokenTypeEnforced ==
    \A t \in issued : \A c \in Cookies :
        /\ t.typ = "refresh" =>
              /\ ~verify_token(redisUp, t, "access").ok
              /\ triple_verify_authentication(0, SM, t, c).user = 0
              /\ get_current_user(0, SM, t, c).user = 0
        /\ t.typ = "access" => ~refresh_access_token(0, SM, t).ok

\* ------------------------------------------- requests while the store fails
NextFailClosed ==
    \/ Tick
    \/ RedisFlip
    \/ /\ nextSid < MaxSessions
       /\ \E u \in Users : LoginSession(u)
    \/ \E t \in issued : RevokeToken(t, 0)
    \/ \E sid \in AllocatedSids, u \in Users, f \in BOOLEAN : ValidateSession(sid, u, f)
    \/ \E t \in Presented, c \in Cookies, f \in Faults : TripleVerify(t, c, f)
    \/ \E t \in Presented, c \in Cookies, f \in Faults : GetCurrentUser(t, c, f)

SpecFailClosed == InitAuth /\ [][NextFailClosed]_vars

NextRefresh ==
    \/ Tick
    \/ RedisFlip
    \/ \E st \in {"active", "inactive"} : SetUserState(1, st)
    \/ /\ nextSid < MaxSessions
       /\ LoginSession(1)
    \/ \E sid \in AllocatedSids : DeactivateSession(sid)
    \/ \E sid \in AllocatedSids : DeleteSession(sid)
    \/ \E t \in issued, f \in Faults : RefreshAccessToken(t, f)
    \/ \E t \in issued, f \in Faults : JwtRefreshAccessToken(t, f)
    \/ \E t \in issued, c \in Cookies, f \in Faults : RefreshEndpoint(t, c, f)

SpecRefresh == InitAuth /\ [][NextRefresh]_vars

RefreshOps == {"refresh_access_token", "jwt_refresh_access_token", "refresh_token"}

\* C8: a refresh with a valid refresh token of a live session returns an access
\* token with the subject and the session id of the refresh token, creates no
\* session and leaves that session live; a refresh whose session is deleted,
\* deactivated or expired fails and issues no token.
RefreshKeepsSession ==
    last.op \in RefreshOps =>
        /\ last.a => /\ last.ok
                     /\ last.out.typ = "access"
                     /\ last.out.sub = last.tok.sub
                     /\ last.out.sid = last.tok.sid
                     /\ SessionLive(last.tok)
        /\ nextSid = last.sid
        /\ last.b => ~last.ok /\ last.out = NoToken

\* -------------------------------------------------------------- logout
NextLogout ==
    \/ Tick
    \/ RedisFlip
    \/ /\ nextSid < MaxSessions
       /\ LoginSession(1)
    \/ /\ nextSid < MaxSessions
       /\ LoginEndpoint(1)
    \/ \E t \in issued, c \in Cookies, f \in Faults : LogoutUser(t, c, f)
    \/ \E t \in issued, c \in Cookies, f \in Faults : LogoutEndpoint(t, c, f)

SpecLogout == Init /\ [][NextLogout]_vars

\* C9: logout attempts token revocation and session invalidation both, reports a
\* failure of either in its result, and the endpoint clears the cookies on
\* every path.
LogoutReportsFailures ==
    /\ last.op \in {"logout_user", "logout"} => ((~last.a \/ ~last.b) => ~last.ok)
    /\ last.op = "logout" => last.cleared

\* ---------------------------------------------- issue and verify tokens
NextToken ==
    \/ Tick
    \/ RedisFlip
    \/ /\ Cardinality(issued) < MaxIssued
       /\ \E u \in Users, sid \in 0..1, typ \in TokenTypes, ttl \in 1..MaxTtl :
             IssueToken(u, sid, typ, ttl)
    \/ \E t \in issued : AddToken(t, TRUE)
    \/ \E t \in issued : JwtRevokeToken(t)
    \/ \E t \in issued, typ \in TokenTypes : VerifyToken(t, typ)
    \/ \E t \in issued, typ \in TokenTypes : JwtVerifyToken(t, typ)

SpecToken == InitAuth /\ [][NextToken]_vars

\* what verify_token returns for the token of log entry l when it accepts it
Issued(l) == [ok |-> TRUE, user_id |-> Str(l.subject), session_id |-> l.session_id]

\* C7, as stated: verifying an issued, unrevoked token with its own type before
\* its ttl has elapsed yields the subject and the session_id it was issued for.
RoundTrip ==
    \A l \in tokLog :
        now < l.at + l.ttl =>
           /\ l.tok \notin revoked => verify_token(redisUp, l.tok, l.typ) = Issued(l)
           /\ l.tok \notin jwtBl => jwt_verify_token(jwtBl, l.tok, l.typ) = Issued(l)

\* C7, amended: the same, for AuthManager.verify_token while the revocation
\* store is reachable.
RoundTripStoreUp ==
    \A l \in tokLog :
        now < l.at + l.ttl =>
           /\ (l.tok \notin revoked /\ redisUp)
                 => verify_token(redisUp, l.tok, l.typ) = Issued(l)
           /\ l.tok \notin jwtBl => jwt_verify_token(jwtBl, l.tok, l.typ) = Issued(l)

\* a token bound to a session was verified and its subject and session came back
RoundTripWitness ==
    /\ last.op = "verify_token"
    /\ last.ok
    /\ last.tok.sid # 0
    /\ last.payload.session_id = last.tok.sid
    /\ ToInt(last.payload.user_id) \in Users

\* ------------------------------------- tokens and sessions growing old
NextExpiry ==
    \/ Tick
    \/ /\ Cardinality(issued) < MaxIssued
       /\ \E sid \in 0..nextSid, typ \in TokenTypes, ttl \in 1..MaxTtl :
             IssueToken(1, sid, typ, ttl)
    \/ \E t \in issued : VerifyToken(t, t.typ)
    \/ \E t \in issued : JwtVerifyToken(t, t.typ)
    \/ /\ nextSid < MaxSessions
       /\ \E u \in Users, e \in 0..MaxTtl : CreateSession(u, e)
    \/ /\ nextSid < MaxSessions
       /\ \E u \in Users, e \in 0..MaxTtl : SimpleCreateSession(u, e)
    \/ \E sid \in AllocatedSids, u \in Users : ValidateSession(sid, u, FALSE)
    \/ \E sid \in AllocatedSids, u \in Users : SimpleValidateSession(sid, u)
    \/ \E sid \in AllocatedSids : BeginUpdate("touch", sid, 0)
    \/ \E p \in pend : ReadTtl(p)
    \/ \E p \in pend : FinishUpdate(p)
    \/ \E sid \in AllocatedSids : SimpleUpdate("touch", sid)
    \/ \E t \in issued, c \in Cookies : GetCurrentUser(t, c, 0)
    \/ \E t \in issued, c \in Cookies : TripleVerify(t, c, 0)

SpecExpiry == InitAuth /\ [][NextExpiry]_vars

\* C6: a token fails verify_token at every time later than its issue time plus
\* its lifetime, and a session that was never extended fails validate_session at
\* every time later than its creation time plus its lifetime, whatever touches
\* and requests happened in between.
ExpiryEnforced ==
    /\ \A l \in tokLog :
          now > l.at + l.ttl =>
             /\ ~verify_token(redisUp, l.tok, l.typ).ok
             /\ ~jwt_verify_token(jwtBl, l.tok, l.typ).ok
    /\ \A sid \in DOMAIN sessLog : \A u \in Users :
          (~sessLog[sid].extended /\ now > sessLog[sid].at + sessLog[sid].ttl) =>
             /\ ~validate_session(redisUp, SM, sid, u).ret
             /\ ~simple_validate_session(ss, sid, u).ret

\* a session that was touched has outlived its lifetime, validate_session was
\* called on it and refused, and an issued token has outlived its lifetime too
ExpiryWitness ==
    /\ last.op \in {"validate_session", "simple_validate_session"}
    /\ ~last.ok
    /\ last.sid \in DOMAIN sessLog
    /\ now > sessLog[last.sid].at + sessLog[last.sid].ttl
    /\ \/ last.sid \in DOMAIN ss /\ ss[last.sid].last_activity > sessLog[last.sid].at
       \/ last.sid \in DOMAIN rs /\ rs[last.sid].last_activity > sessLog[last.sid].at
    /\ \E l \in tokLog : now > l.at + l.ttl

\* ------------------------------------ sessions of several users, the index
NextIndex ==
    \/ Tick
    \/ /\ nextSid < MaxLogins
       /\ \E u \in Users, e \in 1..MaxTtl : CreateSession(u, e)
    \/ /\ nextSid < MaxLogins
       /\ \E u \in Users : SimpleCreateSession(u, 0)
    \/ \E sid \in AllocatedSids : ExtendSession(sid, MaxTtl)
    \/ \E sid \in AllocatedSids : DeactivateSession(sid)
    \/ \E sid \in AllocatedSids : DeleteSession(sid)
    \/ \E u \in Users, ex \in 0..nextSid : DeleteUserSessions(u, ex)
    \/ \E u \in Users, ex \in 0..nextSid : SimpleDeactivateUserSessions(u, ex)
    \/ \E u \in Users, admin \in Users : AdminInvalidateUserSessions(u, admin)

SpecIndex == InitAuth /\ [][NextIndex]_vars

InvalidateOps == {"delete_user_sessions", "simple_deactivate_user_sessions",
                  "admin_invalidate_user_sessions"}

\* C11: invalidating all sessions of user A (delete_user_sessions(A),
\* deactivate_user_sessions(A), or the admin endpoint called with user_id = A)
\* leaves every session of any other user, and that user's session index,
\* unchanged.
PerUserIsolation ==
    [][last'.op \in InvalidateOps =>
          /\ \A sid \in DOMAIN rs :
                rs[sid].user_id # last'.user => sid \in DOMAIN rs' /\ rs'[sid] = rs[sid]
          /\ \A sid \in DOMAIN ss :
                ss[sid].user_id # last'.user => sid \in DOMAIN ss' /\ ss'[sid] = ss[sid]
          /\ \A u \in Users \ {last'.user} :
                rsIdx'[u] = rsIdx[u] /\ rsIdxExp'[u] = rsIdxExp[u]]_vars


\* ------------------------------------------------------- heartbeats alone
NextHeartbeat ==
    \/ Tick
    \/ \E sid \in HbSessions, u \in Users : RecordHeartbeat(sid, u)
    \/ \E sid \in HbSessions : MarkMissedHeartbeat(sid)
    \/ \E sid \in HbSessions : CheckSessionHeartbeatStatus(sid)

SpecHeartbeat == InitAuth /\ [][NextHeartbeat]_vars

\* C12: for a session with a recorded heartbeat, the k-th mark_missed_heartbeat
\* since the most recent record_heartbeat returns false for k < 3 and true for
\* k = 3.
MissedThreshold ==
    (last.op = "mark_missed_heartbeat" /\ hbLog[last.sid].rec) =>
        /\ hbLog[last.sid].marks < MaxMissedHeartbeats => ~last.ok
        /\ hbLog[last.sid].marks = MaxMissedHeartbeats => last.ok

\* the classification of a heartbeat that is elapsed seconds old
Classify(elapsed) ==
    IF elapsed <= HeartbeatInterval THEN "active"
    ELSE IF elapsed <= 2 * HeartbeatInterval THEN "warning"
    ELSE "timeout"

\* C13: for a session whose last recorded heartbeat is elapsed seconds old,
\* check_session_heartbeat_status returns active (alive) up to one interval,
\* warning (alive) up to two intervals, and timeout (not alive) beyond.
HeartbeatClassification ==
    (last.op = "check_session_heartbeat_status" /\ hbLog[last.sid].rec) =>
        /\ last.typ = Classify(now - hbLog[last.sid].at)
        /\ last.ok = (last.typ # "timeout")

\* ------------------------------------------------------- the cleanups alone
NextCleanup ==
    \/ Tick
    \/ /\ Cardinality(issued) < MaxIssued
       /\ \E ttl \in 1..MaxTtl : IssueToken(1, 0, "access", ttl)
    \/ \E t \in issued, hasExp \in BOOLEAN : AddToken(t, hasExp)
    \/ /\ nextSid < MaxLogins
       /\ \E u \in Users, e \in 1..MaxTtl : CreateSession(u, e)
    \/ /\ nextSid < MaxLogins
       /\ \E u \in Users, e \in 1..MaxTtl : SimpleCreateSession(u, e)
    \/ CleanupExpiredTokens
    \/ CleanupExpiredSessions
    \/ SimpleCleanupExpiredSessions

SpecCleanup == InitAuth /\ [][NextCleanup]_vars

CleanupOps == {"cleanup_tokens", "cleanup_expired_sessions",
               "simple_cleanup_expired_sessions"}

\* C14: a cleanup called again right after the same cleanup, with nothing
\* expiring in between, returns 0.
IdempotentCleanup == (last.op \in CleanupOps /\ last.a) => last.n = 0

\* ------------------------------------------- the flows that issue tokens
NextBinding ==
    \/ Tick
    \/ RedisFlip
    \/ /\ nextSid < MaxSessions
       /\ \E u \in Users : LoginSession(u)
    \/ /\ nextSid < MaxSessions
       /\ \E u \in Users : LoginEndpoint(u)
    \/ \E sid \in AllocatedSids : DeleteSession(sid)
    \/ \E t \in issued, f \in Faults : RefreshAccessToken(t, f)
    \/ \E t \in issued, f \in Faults : JwtRefreshAccessToken(t, f)
    \/ \E t \in issued, c \in Cookies, f \in Faults : RefreshEndpoint(t, c, f)

SpecBinding == InitAuth /\ [][NextBinding]_vars

\* the session id names a session of user u in one of the two session stores
StoredFor(store, simple, sid, u) ==
    \/ sid \in DOMAIN store /\ store[sid].user_id = u
    \/ sid \in DOMAIN simple /\ simple[sid].user_id = u

\* C15: every token issued by a login or refresh flow that carries a session_id
\* names a session that is stored when the token is issued and whose user_id is
\* the token's subject.
TokenSessionBinding ==
    [][\A l \in tokLog' \ tokLog :
          l.session_id # 0 => StoredFor(rs', ss', l.session_id, l.subject)]_vars

\* ------------------------------------------------------------ touch alone
NextTouch ==
    \/ Tick
    \/ /\ nextSid < MaxLogins
       /\ \E u \in Users, e \in 1..MaxTtl : CreateSession(u, e)
    \/ /\ nextSid < MaxLogins
       /\ \E u \in Users, e \in 1..MaxTtl : SimpleCreateSession(u, e)
    \/ \E sid \in 1..MaxLogins : BeginUpdate("touch", sid, 0)
    \/ \E sid \in 1..MaxLogins : UpdateMissing("touch", sid)
    \/ \E p \in pend : ReadTtl(p)
    \/ \E p \in pend : FinishUpdate(p)
    \/ \E sid \in 1..MaxLogins : SimpleUpdateSessionActivity(sid)

SpecTouch == InitAuth /\ [][NextTouch]_vars

TouchOps == {"touch", "simple_touch"}

\* session sid of store m has the same fields in m and n, last_activity apart
SameButActivity(m, n, sid, fields) ==
    /\ sid \in DOMAIN m
    /\ sid \in DOMAIN n
    /\ \A f \in fields : n[sid][f] = m[sid][f]

\* C16: a touch that returns true changes only last_activity: expires_at,
\* is_active, user_id and the moment the store drops the session stay as they
\* were; a touch that returns false changes no session and creates none.
TouchFrame ==
    [][/\ (last'.op = "touch" /\ last'.ok) =>
              /\ SameButActivity(rs, rs', last'.sid,
                                 {"expires_at", "is_active", "user_id", "dropAt"})
              /\ \A x \in DOMAIN rs' \ {last'.sid} : x \in DOMAIN rs /\ rs'[x] = rs[x]
       /\ (last'.op = "simple_touch" /\ last'.ok) =>
              /\ SameButActivity(ss, ss', last'.sid,
                                 {"expires_at", "is_active", "user_id"})
              /\ \A x \in DOMAIN ss' \ {last'.sid} : x \in DOMAIN ss /\ ss'[x] = ss[x]
       /\ (last'.op \in TouchOps /\ ~last'.ok) => rs' = rs /\ ss' = ss]_vars

\* C17: every session id in user u's session set resolves to no session or to
\* a session whose user_id is u.
IndexInvariant ==
    \A u \in Users : \A sid \in rsIdx[u] : sid \in DOMAIN rs => rs[sid].user_id = u

\* a user's set holds one id that resolves to a session and one that does not
IndexWitness ==
    \E u \in Users : \E a \in rsIdx[u], b \in rsIdx[u] :
        /\ a \in DOMAIN rs
        /\ rs[a].user_id = u
        /\ b \notin DOMAIN rs

\* C18: whenever triple_verify_authentication or get_current_user returns a
\* user, that user exists and is active when the request is checked.
ActiveUsersOnly ==
    (last.op \in {"triple_verify", "get_current_user"} /\ last.ok) =>
        userState[last.user] = "active"

\* --------------------------------------------------- requests after logout
NextAfterLogout ==
    \/ Tick
    \/ /\ nextSid < MaxSessions
       /\ LoginSession(1)
    \/ \E sid \in AllocatedSids : BeginUpdate("touch", sid, 0)
    \/ \E p \in pend : ReadTtl(p)
    \/ \E p \in pend : FinishUpdate(p)
    \/ \E t \in issued : t.typ = "access" /\ LogoutUser(t, t.sid, 0)
    \/ \E t \in issued, c \in Cookies : TripleVerify(t, c, 0)
    \/ \E t \in issued, c \in Cookies : GetCurrentUser(t, c, 0)
    \/ /\ Cardinality(issued) <= MaxTokens
       /\ \E t \in issued : RefreshAccessToken(t, 0)

SpecAfterLogout == InitAuth /\ [][NextAfterLogout]_vars

\* logout_user returned success for a request carrying an access token and the
\* cookie of session sid
LoggedOut(sid) == sid \in DOMAIN sessLog /\ sessLog[sid].outTok # NoToken

\* C19: after logout_user returned success for the access token and cookie of
\* session S, no request is authenticated with that access token and
\* refresh_access_token with the refresh token of S fails.
LogoutIsFinal ==
    /\ (last.op \in {"triple_verify", "get_current_user"} /\ last.ok) =>
           ~(LoggedOut(last.tok.sid) /\ sessLog[last.tok.sid].outTok = last.tok)
    /\ (last.op = "refresh_access_token" /\ last.ok) => ~LoggedOut(last.tok.sid)

\* every stored session is a member of its user's session set
IndexComplete(store, index) ==
    \A sid \in DOMAIN store : sid \in index[store[sid].user_id]

\* C20: after delete_user_sessions(u) with no excluded session, validate_session
\* is false for every session of u that was stored when the call began, the
\* returned count is the number of sessions removed, and every stored session
\* is a member of its user's session set.
DeleteUserSessionsComplete ==
    [][/\ IndexComplete(rs', rsIdx')
       /\ (last'.op = "delete_user_sessions" /\ last'.sid = 0) =>
              /\ \A sid \in DOMAIN rs :
                    rs[sid].user_id = last'.user =>
                        ~validate_session(redisUp',
                                          [s |-> rs', idx |-> rsIdx', idxExp |-> rsIdxExp'],
                                          sid, last'.user).ret
              /\ last'.n = Cardinality(DOMAIN rs \ DOMAIN rs')]_vars

\* C21: concurrent update_session_activity, extend_session and
\* deactivate_session calls on one session leave it as some sequential order
\* of them would; in particular, once deactivate_session has returned true the
\* stored session is not active again.
DeactivationSticks ==
    [][\A sid \in DOMAIN rs \cap DOMAIN rs' :
          (sessLog[sid].deact /\ ~rs[sid].is_active) => ~rs'[sid].is_active]_vars

\* C22: once delete_session(s) has returned true, get_session(s) returns
\* nothing and validate_session(s) is false in every later state.
DeletedStaysDeleted ==
    \A sid \in DOMAIN sessLog :
        (sessLog[sid].mgr = "redis" /\ sessLog[sid].deleted) =>
            /\ ~has_session(redisUp, SM, sid)
            /\ ~validate_session(redisUp, SM, sid, 0).ret

\* ------------------------------------------- heartbeats, calls overlapping
NextHeartbeatRace ==
    \/ Tick
    \/ \E sid \in HbSessions, u \in Users : RecordHeartbeat(sid, u)
    \/ \E sid \in HbSessions : BeginMarkMissed(sid)
    \/ \E r \in hb.reads : FinishMarkMissed(r)
    \/ \E sid \in HbSessions : CheckSessionHeartbeatStatus(sid)

SpecHeartbeatRace == InitAuth /\ [][NextHeartbeatRace]_vars

\* C23: once record_heartbeat has returned 'recorded', the stored last_heartbeat
\* is not older than that record's timestamp, and the stored missed count
\* counts no more than the mark_missed_heartbeat calls that returned after it.
RecordSupersedesMisses ==
    \A sid \in HbSessions :
        (hbLog[sid].rec /\ has_heartbeat(hb, sid)) =>
            /\ hb.s[sid].last_heartbeat >= hbLog[sid].at
            /\ hb.s[sid].missed_count <= hbLog[sid].marks

\* C24: every value the registry has written to the store, the membership set
\* and every detail record, holds only the hash of a token, never the token.
NoBearerSecretStored ==
    /\ \A h \in blSet : \E t \in issued : h = HashToken(t)
    /\ \A r \in blRecs : r.token \notin issued

\* ------------------------------------- retention of revocation entries
NextRetention ==
    \/ Tick
    \/ /\ Cardinality(issued) < MaxTokens
       /\ \E ttl \in 1..MaxTtl : IssueToken(1, 0, "access", ttl)
    \/ \E t \in issued : AddToken(t, TRUE)
    \/ CleanupExpiredTokens

SpecRetention == InitAuth /\ [][NextRetention]_vars

\* the registry holds an entry for token t: its hash in the set or a record
Retained(t) == HashToken(t) \in blSet \/ \E r \in blRecs : r.token = t

\* C25: an entry created by add_token(token, expires_at) has left the store
\* when the token expires, whatever is added afterwards; add_token for an
\* expired token stores nothing and returns true.
BoundedRetention ==
    \A t \in issued :
        now >= t.exp =>
            /\ ~Retained(t)
            /\ add_token(redisUp, BL, t, TRUE, t.exp) = [bl |-> BL, ret |-> TRUE]

\* C26: cleanup_expired_tokens removes a membership only of a token whose
\* expiry has passed, and whatever cleanup_expired_tokens and add_token calls
\* have run, is_blacklisted answers true for every token that was added and
\* has not expired.
CleanupKeepsRevoked ==
    /\ [][last'.op = "cleanup_tokens" =>
            \A h \in blSet \ blSet' :
                \E t \in issued : h = HashToken(t) /\ now >= t.exp]_vars
    /\ [](\A t \in revoked : now < t.exp => is_blacklisted(redisUp, t))

\* C27: a request that triple_verify_authentication rejects leaves every
\* session as it was, its last_activity, is_active, expires_at and store
\* lifetime included; the only change allowed is the deletion of a session
\* found expired.
RejectionChangesNoSession ==
    [][(last'.op = "triple_verify" /\ ~last'.ok) =>
          \A sid \in DOMAIN rs :
              \/ sid \in DOMAIN rs' /\ rs'[sid] = rs[sid]
              \/ sid \notin DOMAIN rs' /\ now > rs[sid].expires_at]_vars

\* ------------------------------------- extending a session
NextExtend ==
    \/ Tick
    \/ /\ nextSid < MaxLogins
       /\ \E u \in Users, e \in 1..MaxTtl : CreateSession(u, e)
    \/ \E sid \in AllocatedSids, d \in 1..MaxTtl : ExtendSession(sid, d)
    \/ \E sid \in AllocatedSids : DeactivateSession(sid)

SpecExtend == InitAuth /\ [][NextExtend]_vars

\* C28: after extend_session(s, d) returned true for d > 0, expires_at of s and
\* the moment the store drops s are no earlier than before the call, and
\* is_active and user_id of s are unchanged.
ExtendNeverShortens ==
    [][(last'.op = "extend_session" /\ last'.ok) =>
          LET s == last'.sid
          IN  /\ s \in DOMAIN rs /\ s \in DOMAIN rs'
              /\ rs'[s].expires_at >= rs[s].expires_at
              /\ rs'[s].dropAt >= rs[s].dropAt
              /\ rs'[s].is_active = rs[s].is_active
              /\ rs'[s].user_id = rs[s].user_id]_vars

\* ------------------------------------- what a rejected request is told
\* get_current_user_enhanced(request, db, token): user 0 is the raised
\* HTTPException with status code and detail
get_current_user_enhanced(f, sm, t, cookie) ==
    LET r == triple_verify_authentication(f, sm, t, cookie)
    IN  IF r.user = 0
        THEN [sm |-> r.sm, user |-> 0, code |-> 401, detail |-> "auth_failed"]
        ELSE [sm |-> r.sm, user |-> r.user, code |-> 200, detail |-> "none"]

\* C29: any two rejected requests get the same status code and message from the
\* authentication dependency, whichever step rejected them, through
\* get_current_user_enhanced and through get_current_user.
UniformRejection ==
    \A t1 \in Presented, t2 \in Presented, c1 \in Cookies, c2 \in Cookies :
        /\ LET a == get_current_user_enhanced(0, SM, t1, c1)
               b == get_current_user_enhanced(0, SM, t2, c2)
           IN  (a.user = 0 /\ b.user = 0) => (a.code = b.code /\ a.detail = b.detail)
        /\ LET a == get_current_user(0, SM, t1, c1)
               b == get_current_user(0, SM, t2, c2)
           IN  (a.user = 0 /\ b.user = 0) => a.code = b.code

\* ------------------------------------- the background task periodic_cleanup
\* asyncio.sleep(3600), scaled
CleanupInterval == 1
\* sweeps that raise, at most
MaxFails == 1

\* the top of the loop: await asyncio.sleep(3600)
begin_sleep(t) ==
    [t EXCEPT !.pc = "sleeping", !.wakeAt = now + CleanupInterval, !.todo = {}]

\* a handler that leaves the loop when a sweep raises
on_exception_break(t) == [t EXCEPT !.pc = "done", !.todo = {}, !.fails = @ + 1]

\* except Exception: the failure is logged and the loop goes round
on_exception(t) == begin_sleep([t EXCEPT !.fails = @ + 1])

\* except asyncio.CancelledError: break
on_cancelled(t) == [t EXCEPT !.pc = "done", !.todo = {}]

taskFrame == <<envVars, tokVars, blVars, smVars, nextSid, sessLog, pend, hbVars>>

\* lifespan, start-up: init_session_manager sweeps once, then the task is created
StartLifespan ==
    /\ task.pc = "none"
    /\ ss' = simple_cleanup_expired_sessions(ss).m
    /\ task' = [task EXCEPT !.pc = "created"]
    /\ last' = NoCall
    /\ UNCHANGED taskFrame

\* the event loop runs the task for the first time: it reaches the sleep
TaskBegin ==
    /\ task.pc = "created" /\ ~task.cancel
    /\ task' = begin_sleep(task)
    /\ last' = NoCall
    /\ UNCHANGED <<taskFrame, ss>>

\* the sleep is over: cleanup_expired_sessions collects the expired ids
TaskWake ==
    /\ task.pc = "sleeping" /\ ~task.cancel
    /\ now >= task.wakeAt
    /\ task' = [task EXCEPT !.pc = "sweep",
                            !.todo = {x \in DOMAIN ss : now > ss[x].expires_at}]
    /\ last' = NoCall
    /\ UNCHANGED <<taskFrame, ss>>

\* del self._sessions[session_id], for one collected id
TaskDelete(x) ==
    /\ task.pc = "sweep" /\ x \in task.todo
    /\ ss' = simple_delete_session(ss, x).m
    /\ task' = [task EXCEPT !.todo = @ \ {x}]
    /\ last' = NoCall
    /\ UNCHANGED taskFrame

\* the sweep returns, the statistics are logged, the loop goes round
TaskFinish ==
    /\ task.pc = "sweep" /\ task.todo = {}
    /\ task' = begin_sleep(task)
    /\ last' = NoCall
    /\ UNCHANGED <<taskFrame, ss>>

\* some statement of the sweep raises
TaskRaise ==
    /\ task.pc = "sweep" /\ task.fails < MaxFails
    /\ task' = on_exception(task)
    /\ last' = NoCall
    /\ UNCHANGED <<taskFrame, ss>>

\* lifespan, shutdown: cleanup_task.cancel().  cancel() only marks the task;
\* CancelledError is raised inside the task where it awaits.
CancelTask ==
    /\ task.pc # "none" /\ ~task.cancel
    /\ task' = [task EXCEPT !.cancel = TRUE]
    /\ last' = NoCall
    /\ UNCHANGED <<taskFrame, ss>>

\* CancelledError raised at the await (or before the first run of the task)
TaskCancelled ==
    /\ task.pc \in {"created", "sleeping"} /\ task.cancel
    /\ task' = on_cancelled(task)
    /\ last' = NoCall
    /\ UNCHANGED <<taskFrame, ss>>

\* what the event loop does for the task when nothing fails
TaskRun ==
    \/ TaskBegin
    \/ TaskWake
    \/ \E x \in DOMAIN ss : TaskDelete(x)
    \/ TaskFinish
    \/ TaskCancelled

NextPeriodic ==
    \/ Tick
    \/ StartLifespan
    \/ /\ nextSid < MaxLogins
       /\ \E u \in Users, e \in 1..MaxTtl : SimpleCreateSession(u, e)
    \/ TaskRun
    \/ TaskRaise
    \/ CancelTask

\* the event loop runs a task that is ready
SpecPeriodic == InitAuth /\ [][NextPeriodic]_vars /\ WF_vars(TaskRun)

\* C30: a sweep that raises leaves the task alive, asleep for one interval
\* before the next sweep; a cancelled task eventually terminates; the task
\* terminates only on cancellation, and only where it sleeps, never with
\* collected entries still to remove.
PeriodicCleanupSurvives ==
    /\ [][task'.fails > task.fails =>
            /\ task'.pc = "sleeping"
            /\ task'.wakeAt = now + CleanupInterval]_vars
    /\ [][(task.pc = "sleeping" /\ task'.pc = "sweep") => now >= task.wakeAt]_vars
    /\ [][(task.pc # "done" /\ task'.pc = "done") =>
            /\ task.cancel
            /\ task.pc \in {"created", "sleeping"}
            /\ task.todo = {}
            /\ ss' = ss]_vars
    /\ (task.cancel ~> task.pc = "done")

\* a sweep raised, a later sweep removed an entry, then the task was cancelled
\* and has terminated
PeriodicCleanupWitness ==
    /\ task.pc = "done"
    /\ task.fails > 0
    /\ \E x \in DOMAIN sessLog : x \notin DOMAIN ss
====
